---- MODULE Spec2Model ----
(***************************************************************************)
(* A model of github.com/kataras/sheets: the struct metadata cache         *)
(* (getMetadata) and the binding of value ranges to records                *)
(* (DecodeValueRange, decodeValue) of values.go.                           *)
(*                                                                         *)
(* A Go type is the sequence of its kinds, outermost first:                *)
(*   *[]*testRow  is  <<"ptr", "slice", "ptr", "struct">>  of struct       *)
(* "testRow".  A Go value of a basic type is a record [t, s, n]: its       *)
(* dynamic type, its string payload and its integer payload; the nil       *)
(* interface value has t = "nil".                                          *)
(***************************************************************************)
EXTENDS Integers, Sequences, FiniteSets, TLC

\* Bounds of the inputs.
MaxMatrices == 2
MaxRows == 2
MaxCells == 2
MaxTotalRows == 3
MaxCalls == 1
NumGoroutines == 2
MaxLookups == 2

structTag == "sheets"

(***************************************************************************)
(* Cell values: interface{} values as encoding/json produces them, and     *)
(* the Go int of the package's tests.                                      *)
(***************************************************************************)
StringCell(s) == [t |-> "string", s |-> s, n |-> 0]

IntCell(n) == [t |-> "int", s |-> "", n |-> n]

NilCell == [t |-> "nil", s |-> "", n |-> 0]

Cells == {StringCell("makis"), IntCell(27), NilCell}

\* The zero value of a basic type.
Zero(typ) == [t |-> typ, s |-> "", n |-> 0]

(***************************************************************************)
(* Struct types.  A field is a reflect.StructField: Name, PkgPath (empty   *)
(* for an exported field), Tag (the value of the `sheets` key) and Type.   *)
(* hook names the DecodeField method of the pointer type, "none" when the  *)
(* type does not implement FieldDecoder.                                   *)
(***************************************************************************)
Field(name, pkgPath, tag, typ) == [Name |-> name, PkgPath |-> pkgPath, Tag |-> tag, Type |-> typ]

testRowFields == << Field("Name", "", "", "string"),
                    Field("Other", "", "-", "string"),
                    Field("Age", "", "", "int") >>

testRow == [name |-> "testRow", fields |-> testRowFields, hook |-> "none"]

testRowFieldDecoder == [name |-> "testRowFieldDecoder",
                        fields |-> << Field("Name", "", "", "string") >>,
                        hook |-> "custom"]

\* testRow with a DecodeField that always defers to the default.
okRow == [name |-> "okRow", fields |-> testRowFields, hook |-> "errok"]

\* testRow with a DecodeField that handles strings and rejects misplaced ints.
strictRow == [name |-> "strictRow", fields |-> testRowFields, hook |-> "strict"]

\* A type with an unexported field, a renamed field and an excluded field.
taggedRow == [name |-> "taggedRow",
              fields |-> << Field("secret", "sheets", "", "string"),
                            Field("Title", "", "title", "string"),
                            Field("Skip", "", "-", "int") >>,
              hook |-> "none"]

\* A type with no bindable field at all.
blankRow == [name |-> "blankRow",
             fields |-> << Field("secret", "sheets", "", "int"),
                           Field("Skip", "", "-", "string") >>,
             hook |-> "none"]

StructTypes == {testRow, testRowFieldDecoder, okRow, strictRow, taggedRow, blankRow}

StructNames == {st.name : st \in StructTypes}

StructTable == [name \in StructNames |-> CHOOSE st \in StructTypes : st.name = name]

StructOf(name) == StructTable[name]

(***************************************************************************)
(* getMetadata, lines 102-140: what it builds for a type on a cache miss.  *)
(***************************************************************************)
Header(name, fieldIndex, fieldName, fieldType) ==
    [Name |-> name, FieldIndex |-> fieldIndex, FieldName |-> fieldName, FieldType |-> fieldType]

\* A getMetadata that does not skip the fields tagged "-".
RECURSIVE buildHeadersKeepExcluded(_, _)
buildHeadersKeepExcluded(fields, i) ==
    IF i >= Len(fields) THEN << >>
    ELSE LET f == fields[i + 1]
             name == IF f.Tag = "" THEN f.Name ELSE f.Tag
         IN  IF f.PkgPath # "" THEN buildHeadersKeepExcluded(fields, i + 1)
             ELSE << Header(name, i, f.Name, f.Type) >> \o buildHeadersKeepExcluded(fields, i + 1)

RECURSIVE buildHeaders(_, _)
buildHeaders(fields, i) ==
    IF i >= Len(fields) THEN << >>
    ELSE LET f == fields[i + 1]
             name == IF f.Tag = "" THEN f.Name ELSE f.Tag
         IN  IF f.PkgPath # "" THEN buildHeaders(fields, i + 1)
             ELSE IF name = "-" THEN buildHeaders(fields, i + 1)
             ELSE << Header(name, i, f.Name, f.Type) >> \o buildHeaders(fields, i + 1)

buildMetadata(typ) ==
    [typ |-> typ,
     headers |-> buildHeaders(StructOf(typ).fields, 0),
     decodeFieldFunc |-> StructOf(typ).hook]

(***************************************************************************)
(* Records.  A struct value is the sequence of its field values, one per   *)
(* declared field (bindable or not), field i of Go at position i + 1.      *)
(***************************************************************************)
ZeroRecord(typ) ==
    [i \in 1..Len(StructOf(typ).fields) |-> Zero(StructOf(typ).fields[i].Type)]

\* A record a caller filled in before the call: every field holds "old" / 9.
OldRecord(typ) ==
    [i \in 1..Len(StructOf(typ).fields) |->
        [t |-> StructOf(typ).fields[i].Type, s |-> IF StructOf(typ).fields[i].Type = "string" THEN "old" ELSE "", n |-> IF StructOf(typ).fields[i].Type = "int" THEN 9 ELSE 0]]

\* reflect.Value.Field(i).Set(val)
SetField(rec, fieldIndex, val) == [rec EXCEPT ![fieldIndex + 1] = val]

\* reflect.Type.AssignableTo between the basic types of the model.
AssignableTo(valueType, fieldType) == valueType = fieldType

(***************************************************************************)
(* The DecodeField methods of the struct types: the record after the call  *)
(* and what the call returns ("nil", "ErrOK", another error, or "panic").  *)
(***************************************************************************)
ErrOK == "ErrOK"

\* values_test.go: t.Name = value.(string) + " custom value"; return nil
customDecodeField(rec, h, value) ==
    IF value.t # "string" THEN [rec |-> rec, ret |-> "panic"]
    ELSE [rec |-> SetField(rec, 0, StringCell(value.s \o " custom value")), ret |-> "nil"]

\* return ErrOK
okDecodeField(rec, h, value) == [rec |-> rec, ret |-> ErrOK]

\* A string is handled by the hook (written, suffixed, into a string field);
\* an int for an int field is left to the default; any other int is an error.
strictDecodeField(rec, h, value) ==
    IF value.t = "string"
    THEN [rec |-> IF h.FieldType = "string"
                  THEN SetField(rec, h.FieldIndex, StringCell(value.s \o " custom value"))
                  ELSE rec,
          ret |-> "nil"]
    ELSE IF h.FieldType = "int" THEN [rec |-> rec, ret |-> ErrOK]
    ELSE [rec |-> rec, ret |-> "bad cell"]

DecodeField(hook, rec, h, value) ==
    CASE hook = "custom" -> customDecodeField(rec, h, value)
      [] hook = "errok" -> okDecodeField(rec, h, value)
      [] hook = "strict" -> strictDecodeField(rec, h, value)

(***************************************************************************)
(* decodeValue, lines 211-242.  The result is the record as the call left  *)
(* it, the returned error ("nil" for none) and the panic ("none" when the  *)
(* call returned).                                                         *)
(***************************************************************************)
Returned(rec, err) == [rec |-> rec, err |-> err, fault |-> "none"]

Panicked(rec, fault) == [rec |-> rec, err |-> "nil", fault |-> fault]

\* A default assignment that clears the field on a type mismatch.
defaultAssignOrClear(rec, h, value) ==
    IF value.t = h.FieldType THEN [rec EXCEPT ![h.FieldIndex + 1] = value]
    ELSE [rec EXCEPT ![h.FieldIndex + 1] = [t |-> h.FieldType, s |-> "", n |-> 0]]

\* Lines 233-238: the default assignment of one cell.
defaultAssign(rec, h, value) ==
    IF AssignableTo(value.t, h.FieldType) THEN SetField(rec, h.FieldIndex, value) ELSE rec

\* Lines 217-238: one cell of the row.  next tells that the loop goes on.
Continue(rec) == [rec |-> rec, err |-> "nil", fault |-> "none", next |-> TRUE]

Stop(r) == [rec |-> r.rec, err |-> r.err, fault |-> r.fault, next |-> FALSE]

\* A decodeValue that returns every error of the hook, ErrOK included.
decodeCellNoSentinel(meta, rec, h, value) ==
    IF meta.decodeFieldFunc # "none"
    THEN IF value.t = "nil" THEN Stop(Panicked(rec, "Call using zero Value argument"))
         ELSE LET out == DecodeField(meta.decodeFieldFunc, rec, h, value)
              IN  IF out.ret = "panic" THEN Stop(Panicked(out.rec, "interface conversion"))
                  ELSE IF out.ret # "nil" THEN Stop(Returned(out.rec, out.ret))
                  ELSE Continue(out.rec)
    ELSE IF value.t = "nil" THEN Stop(Panicked(rec, "Type on zero Value"))
         ELSE Continue(defaultAssign(rec, h, value))

\* A decodeValue without the continue of line 229: the default assignment
\* follows the hook also when the hook returned nil.
decodeCellNoContinue(meta, rec, h, value) ==
    IF meta.decodeFieldFunc # "none"
    THEN IF value.t = "nil" THEN Stop(Panicked(rec, "Call using zero Value argument"))
         ELSE LET out == DecodeField(meta.decodeFieldFunc, rec, h, value)
              IN  IF out.ret = "panic" THEN Stop(Panicked(out.rec, "interface conversion"))
                  ELSE IF out.ret # "nil" /\ out.ret # ErrOK THEN Stop(Returned(out.rec, out.ret))
                  ELSE Continue(defaultAssign(out.rec, h, value))
    ELSE IF value.t = "nil" THEN Stop(Panicked(rec, "Type on zero Value"))
         ELSE Continue(defaultAssign(rec, h, value))

decodeCell(meta, rec, h, value) ==
    IF meta.decodeFieldFunc # "none"
    THEN IF value.t = "nil" THEN Stop(Panicked(rec, "Call using zero Value argument"))
         ELSE LET out == DecodeField(meta.decodeFieldFunc, rec, h, value)
              IN  IF out.ret = "panic" THEN Stop(Panicked(out.rec, "interface conversion"))
                  ELSE IF out.ret # "nil"
                  THEN IF out.ret # ErrOK THEN Stop(Returned(out.rec, out.ret))
                       ELSE Continue(defaultAssign(out.rec, h, value))
                  ELSE Continue(out.rec)
    ELSE IF value.t = "nil" THEN Stop(Panicked(rec, "Type on zero Value"))
         ELSE Continue(defaultAssign(rec, h, value))

RECURSIVE decodeCells(_, _, _, _)
decodeCells(row, meta, rec, i) ==
    IF i >= Len(row) THEN Returned(rec, "nil")
    ELSE IF i >= Len(meta.headers) THEN Panicked(rec, "index out of range")
    ELSE LET c == decodeCell(meta, rec, meta.headers[i + 1], row[i + 1])
         IN  IF c.next THEN decodeCells(row, meta, c.rec, i + 1)
             ELSE [rec |-> c.rec, err |-> c.err, fault |-> c.fault]

\* A decodeValue that skips the cells beyond the descriptor list.
decodeValueSkipExcess(row, meta, rec) ==
    IF Len(row) = 0 \/ Len(meta.headers) = 0 THEN Returned(rec, "nil")
    ELSE IF Len(row) > Len(meta.headers)
    THEN decodeCells(SubSeq(row, 1, Len(meta.headers)), meta, rec, 0)
    ELSE decodeCells(row, meta, rec, 0)

decodeValue(row, meta, rec) ==
    IF Len(row) = 0 \/ Len(meta.headers) = 0 THEN Returned(rec, "nil")
    ELSE decodeCells(row, meta, rec, 0)

(***************************************************************************)
(* error.go: ResourceError, lines 14-19.  A *ResourceError is nil or       *)
(* points to a value; an error is nil, a *ResourceError (possibly a nil    *)
(* one in a non-nil interface) or an error of another type.                *)
(***************************************************************************)
ResourceError(method, url, statusCode, message) ==
    [Method |-> method, URL |-> url, StatusCode |-> statusCode, Message |-> message]

Methods == {"", "GET", "POST"}

URLs == {"", "x"}

StatusCodes == {-1, 0, 404, 500}

Messages == {"", "m"}

ResourceErrors ==
    {ResourceError(m, u, c, msg) : m \in Methods, u \in URLs, c \in StatusCodes, msg \in Messages}

Ref(v) == [isNil |-> FALSE, val |-> v]

NilResourceError == [isNil |-> TRUE, val |-> ResourceError("", "", 0, "")]

ResourceErrorPtrs == {Ref(v) : v \in ResourceErrors} \cup {NilResourceError}

NilError == [kind |-> "nil", ptr |-> NilResourceError]

OtherError == [kind |-> "other", ptr |-> NilResourceError]

AsError(p) == [kind |-> "ResourceError", ptr |-> p]

Errors == {AsError(p) : p \in ResourceErrorPtrs} \cup {NilError, OtherError}

\* What a call gives: the value it returns, or the panic that ends it.
Result(b) == [ret |-> b, fault |-> "none"]

NilDereference == [ret |-> FALSE, fault |-> "nil pointer dereference"]

\* An IsResourceError whose status wildcard is 0 only.
IsResourceErrorZeroStatus(e, target) ==
    IF target.kind = "nil" THEN Result(e.isNil)
    ELSE IF target.kind # "ResourceError" THEN Result(FALSE)
    ELSE IF e.isNil \/ target.ptr.isNil THEN NilDereference
    ELSE LET t == target.ptr.val
         IN  Result(/\ (e.val.Method = t.Method \/ t.Method = "")
                    /\ (e.val.URL = t.URL \/ t.URL = "")
                    /\ (e.val.StatusCode = t.StatusCode \/ t.StatusCode = 0)
                    /\ (e.val.Message = t.Message \/ t.Message = ""))

\* Lines 70-84.  Line 80 reads e.Method and t.Method first.
IsResourceError(e, target) ==
    IF target.kind = "nil" THEN Result(e.isNil)
    ELSE IF target.kind # "ResourceError" THEN Result(FALSE)
    ELSE IF e.isNil \/ target.ptr.isNil THEN NilDereference
    ELSE LET t == target.ptr.val
         IN  Result(/\ (e.val.Method = t.Method \/ t.Method = "")
                    /\ (e.val.URL = t.URL \/ t.URL = "")
                    /\ (e.val.StatusCode = t.StatusCode \/ t.StatusCode <= 0)
                    /\ (e.val.Message = t.Message \/ t.Message = ""))

\* An Is that looks at the status code only.
IsStatusOnly(e, target) ==
    IF target.kind # "ResourceError" THEN Result(FALSE)
    ELSE IF e.isNil \/ target.ptr.isNil THEN NilDereference
    ELSE Result(e.val.StatusCode = target.ptr.val.StatusCode)

\* Lines 88-90.
Is(e, target) == IsResourceError(e, target)

(***************************************************************************)
(* client.go.  A URL is a path and its query values; a request is a method *)
(* and a URL; a body on the wire is a text, gzip-compressed or not.        *)
(***************************************************************************)
StatusOK == 200

Err(kind) == [kind |-> kind, ptr |-> NilResourceError]

NoQuery == [k \in {} |-> ""]

Queries == {NoQuery, [k \in {"a"} |-> "1"], [k \in {"b"} |-> "2"], [k \in {"a"} |-> "3"]}

\* url.Values.Encode: the pairs sorted by key.
Encode(query) ==
    (IF "a" \in DOMAIN query THEN "a=" \o query["a"] ELSE "")
    \o (IF "a" \in DOMAIN query /\ "b" \in DOMAIN query THEN "&" ELSE "")
    \o (IF "b" \in DOMAIN query THEN "b=" \o query["b"] ELSE "")

\* url.URL.String
URLString(u) == IF u.RawQuery = "" THEN u.Path ELSE u.Path \o "?" \o u.RawQuery

\* The url argument: what url.Parse makes of it, or that it cannot be parsed.
RawURL(valid, path, query) == [valid |-> valid, Path |-> path, Query |-> query]

RawURLs ==
    {RawURL(TRUE, "u", NoQuery), RawURL(TRUE, "u", [k \in {"a"} |-> "1"]), RawURL(FALSE, "", NoQuery)}

HTTPMethods == {"GET", "POST"}

Request(method, path, query) ==
    [Method |-> method, URL |-> [Path |-> path, Query |-> query, RawQuery |-> Encode(query)]]

NoRequest == Request("", "", NoQuery)

\* Lines 38-44: Query.Apply
QueryApply(q, r) ==
    LET query == [k \in DOMAIN r.URL.Query \cup DOMAIN q |->
                     IF k \in DOMAIN q THEN q[k] ELSE r.URL.Query[k]]
    IN  [r EXCEPT !.URL.Query = query, !.URL.RawQuery = Encode(query)]

\* Lines 74-76: the options are applied in order.
RECURSIVE applyOptions(_, _)
applyOptions(options, req) ==
    IF Len(options) = 0 THEN req
    ELSE applyOptions(Tail(options), QueryApply(Head(options), req))

MaxOptions == 1

OptionLists == UNION {[1..n -> Queries \ {NoQuery}] : n \in 0..MaxOptions}

\* The bytes of a response body, and what a reader of them gets.
Texts == {"", "not found", "[1]"}

Wire(enc, text) == [enc |-> enc, text |-> text]

Wires == {Wire(enc, text) : enc \in {"plain", "gzip"}, text \in Texts}

\* The bytes as they are, read without decompression.
RawText(wire) == IF wire.enc = "gzip" THEN "gzip(" \o wire.text \o ")" ELSE wire.text

\* gzip.NewReader reads the gzip header of the stream.
HasGzipHeader(wire) == wire.enc = "gzip"

(***************************************************************************)
(* What c.HTTPClient.Do gives, line 78: an error, with or without a        *)
(* response, or a response with its headers and body; and the state of     *)
(* the caller's context when the call comes back.                          *)
(***************************************************************************)
Response(status, encoding, wire, readFails, wrapped, req) ==
    [present |-> TRUE, StatusCode |-> status, ContentEncoding |-> encoding, wire |-> wire,
     readFails |-> readFails, wrapped |-> wrapped, Request |-> req]

NoResponse ==
    [present |-> FALSE, StatusCode |-> 0, ContentEncoding |-> "", wire |-> Wire("plain", ""),
     readFails |-> FALSE, wrapped |-> FALSE, Request |-> NoRequest]

Statuses == {200, 201, 404}

RoundTrip(failed, hasResponse, status, encoding, wire, readFails) ==
    [failed |-> failed, hasResponse |-> hasResponse, status |-> status, encoding |-> encoding,
     wire |-> wire, readFails |-> readFails]

RoundTrips ==
    {RoundTrip(TRUE, b, 0, "", Wire("plain", ""), FALSE) : b \in BOOLEAN}
    \cup {RoundTrip(FALSE, TRUE, st, enc, w, rf) :
             st \in Statuses, enc \in {"", "gzip"}, w \in Wires, rf \in BOOLEAN}

Contexts == {"live", "canceled", "deadline exceeded"}

\* ctx.Err()
ctxErr(ctx) == Err("context " \o ctx)

(***************************************************************************)
(* Do, lines 63-101.  The result is the response and the error Do returns  *)
(* and the state of the body the HTTP call yielded: "none" when it yielded *)
(* none, else "open" or "closed".                                          *)
(***************************************************************************)
DoResult(resp, err, body) == [resp |-> resp, err |-> err, body |-> body]

\* Lines 80-84 without the select: the transport error as it is.
failureErrorRaw(ctx, err) == err

\* Lines 80-84: select { case <-ctx.Done(): err = ctx.Err(); default: }
failureError(ctx, err) == IF ctx # "live" THEN ctxErr(ctx) ELSE err

Do(ctx, method, url, options, rt) ==
    IF ~url.valid THEN DoResult(NoResponse, Err("parse error"), "none")
    ELSE LET req == applyOptions(options, Request(method, url.Path, url.Query))
         IN  IF rt.failed
             THEN DoResult(NoResponse, failureError(ctx, Err("transport error")),
                           IF rt.hasResponse THEN "closed" ELSE "none")
             ELSE IF rt.encoding = "gzip"
             THEN IF ~HasGzipHeader(rt.wire)
                  THEN DoResult(NoResponse, Err("gzip: invalid header"), "open")
                  ELSE DoResult(Response(rt.status, rt.encoding, rt.wire, rt.readFails, TRUE, req),
                                NilError, "open")
             ELSE DoResult(Response(rt.status, rt.encoding, rt.wire, rt.readFails, FALSE, req),
                           NilError, "open")

\* Lines 51-54: gzipReadCloser.Close closes the decompressor, drops its
\* error, and closes the response body.
gzipReadCloserClose(gzipCloseFails) ==
    [gzipReader |-> IF gzipCloseFails THEN "close failed" ELSE "closed",
     responseReader |-> "closed"]

\* resp.Body.Close(): the state of the decompressor and of the underlying body.
CloseBody(resp, gzipCloseFails) ==
    IF resp.wrapped THEN gzipReadCloserClose(gzipCloseFails)
    ELSE [gzipReader |-> "none", responseReader |-> "closed"]

\* ioutil.ReadAll(resp.Body): lines 56-58 for a wrapped body.
ReadAll(resp) ==
    IF resp.readFails THEN [data |-> "", err |-> Err("unexpected EOF")]
    ELSE [data |-> IF resp.wrapped THEN resp.wire.text ELSE RawText(resp.wire), err |-> NilError]

\* error.go, lines 21-38.  The body of a response of Do is never nil.
newResourceError(resp) ==
    LET b == ReadAll(resp)
        cause == IF b.err = NilError THEN b.data ELSE "unspecified"
    IN  Ref(ResourceError(resp.Request.Method, URLString(resp.Request.URL), resp.StatusCode, cause))

\* json.NewDecoder(resp.Body).Decode(toPtr): the destination and the error.
OldValue == <<9>>

JSONDecode(resp, toPtr) ==
    LET b == ReadAll(resp)
    IN  IF b.err # NilError THEN [dest |-> toPtr, err |-> b.err]
        ELSE IF b.data = "[1]" THEN [dest |-> <<1>>, err |-> NilError]
        ELSE IF b.data = "" THEN [dest |-> toPtr, err |-> Err("EOF")]
        ELSE [dest |-> toPtr, err |-> Err("invalid character")]

\* Line 123 as a test for any 2xx status.
isOKAny2xx(status) == status \in 200..299

\* Line 123.
isOK(status) == status = StatusOK

(***************************************************************************)
(* ReadJSON, lines 104-128.  requestData is "none", "data" or              *)
(* "unencodable" (json.Encoder.Encode returns an error for it).            *)
(***************************************************************************)
RequestData == {"none", "data", "unencodable"}

ReadJSONResult(err, dest, body, gzipReader) ==
    [err |-> err, dest |-> dest, body |-> body, gzipReader |-> gzipReader]

ReadJSON(ctx, method, url, requestData, toPtr, options, rt, gzipCloseFails) ==
    IF requestData = "unencodable"
    THEN ReadJSONResult(Err("json: unsupported type"), toPtr, "none", "none")
    ELSE LET r == Do(ctx, method, url, options, rt)
         IN  IF r.err # NilError THEN ReadJSONResult(r.err, toPtr, r.body, "none")
             ELSE LET closed == CloseBody(r.resp, gzipCloseFails)
                  IN  IF ~isOK(r.resp.StatusCode)
                      THEN ReadJSONResult(AsError(newResourceError(r.resp)), toPtr,
                                          closed.responseReader, closed.gzipReader)
                      ELSE LET d == JSONDecode(r.resp, toPtr)
                           IN  ReadJSONResult(d.err, d.dest, closed.responseReader, closed.gzipReader)

(***************************************************************************)
(* The metadata cache: cache maps a struct type to the address of its      *)
(* *metadata (0: no entry), heap holds the metadata allocated so far, the  *)
(* one of address a at heap[a].                                            *)
(***************************************************************************)
EmptyCache == [typ \in StructNames |-> 0]

\* reflect.Type.Kind of a cache key: a struct type, or a basic type.
KeyKind(typ) == IF typ \in StructNames THEN "struct" ELSE typ

\* getMetadata, lines 94-147, run with no other goroutine between its steps.
getMetadata(c, hp, typ) ==
    IF KeyKind(typ) = "struct" /\ c[typ] # 0
    THEN [cache |-> c, heap |-> hp, meta |-> c[typ], fault |-> "none"]
    ELSE IF KeyKind(typ) # "struct"
    THEN [cache |-> c, heap |-> hp, meta |-> 0, fault |-> "not a struct type"]
    ELSE [cache |-> [c EXCEPT ![typ] = Len(hp) + 1],
          heap |-> Append(hp, buildMetadata(typ)),
          meta |-> Len(hp) + 1,
          fault |-> "none"]

(***************************************************************************)
(* Destinations.  kinds is the Go type of the dest argument, struct the    *)
(* struct type it ends in ("" when it ends in a basic type), isNil tells a *)
(* nil pointer, elems holds what the pointer refers to: the elements of    *)
(* the slice, or the one record.  An element of a []*T is [ref |-> rec].   *)
(***************************************************************************)
Kind(kinds) == IF Len(kinds) = 0 THEN "invalid" ELSE Head(kinds)

Elem(kinds) == Tail(kinds)

Dest(kinds, struct, isNil, elems) ==
    [kinds |-> kinds, struct |-> struct, isNil |-> isNil, elems |-> elems]

ValidDests ==
    UNION {{ Dest(<<"ptr", "struct">>, typ, FALSE, <<ZeroRecord(typ)>>),
             Dest(<<"ptr", "struct">>, typ, FALSE, <<OldRecord(typ)>>),
             Dest(<<"ptr", "slice", "struct">>, typ, FALSE, << >>),
             Dest(<<"ptr", "slice", "struct">>, typ, FALSE, <<OldRecord(typ)>>),
             Dest(<<"ptr", "slice", "ptr", "struct">>, typ, FALSE, << >>),
             Dest(<<"ptr", "slice", "ptr", "struct">>, typ, FALSE, <<[ref |-> OldRecord(typ)]>>) }
           : typ \in StructNames}

WrongDests ==
    { Dest(<<"struct">>, "testRow", FALSE, <<OldRecord("testRow")>>),
      Dest(<< >>, "", FALSE, << >>),
      Dest(<<"ptr", "int">>, "", FALSE, << >>),
      Dest(<<"ptr", "slice", "int">>, "", FALSE, << >>),
      Dest(<<"ptr", "slice", "ptr", "int">>, "", FALSE, << >>) }

NilDests == { Dest(<<"ptr", "struct">>, "testRow", TRUE, << >>) }

Dests == ValidDests \cup WrongDests \cup NilDests

(***************************************************************************)
(* DecodeValueRange, lines 150-209.                                        *)
(***************************************************************************)
SeqUpTo(S, n) == UNION {[1..k -> S] : k \in 0..n}

Rows == SeqUpTo(Cells, MaxCells)

ValueRanges == {[Values |-> values] : values \in SeqUpTo(Rows, MaxRows)}

RECURSIVE TotalRows(_)
TotalRows(rangeValues) ==
    IF rangeValues = << >> THEN 0
    ELSE Len(Head(rangeValues).Values) + TotalRows(Tail(rangeValues))

RangeValues == {rv \in SeqUpTo(ValueRanges, MaxMatrices) : TotalRows(rv) <= MaxTotalRows}

\* A row loop that appends the record before it looks at the error.
RECURSIVE decodeRowsAppendFirst(_, _, _, _, _, _)
decodeRowsAppendFirst(rows, k, meta, typ, ptrElements, elems) ==
    IF k >= Len(rows) THEN [elems |-> elems, err |-> "nil", fault |-> "none"]
    ELSE LET r == decodeValue(rows[k + 1], meta, ZeroRecord(typ))
             newStructValue == IF ptrElements THEN [ref |-> r.rec] ELSE r.rec
         IN  IF r.fault # "none" THEN [elems |-> elems, err |-> "nil", fault |-> r.fault]
             ELSE IF r.err # "nil"
             THEN [elems |-> Append(elems, newStructValue), err |-> r.err, fault |-> "none"]
             ELSE decodeRowsAppendFirst(rows, k + 1, meta, typ, ptrElements, Append(elems, newStructValue))

\* Lines 190-200: the rows of one range, from row k on.
RECURSIVE decodeRows(_, _, _, _, _, _)
decodeRows(rows, k, meta, typ, ptrElements, elems) ==
    IF k >= Len(rows) THEN [elems |-> elems, err |-> "nil", fault |-> "none"]
    ELSE LET r == decodeValue(rows[k + 1], meta, ZeroRecord(typ))
             newStructValue == IF ptrElements THEN [ref |-> r.rec] ELSE r.rec
         IN  IF r.fault # "none" THEN [elems |-> elems, err |-> "nil", fault |-> r.fault]
             ELSE IF r.err # "nil" THEN [elems |-> elems, err |-> r.err, fault |-> "none"]
             ELSE decodeRows(rows, k + 1, meta, typ, ptrElements, Append(elems, newStructValue))

\* A range loop that stops after the first range.
decodeRangesFirstOnly(rangeValues, j, meta, typ, ptrElements, elems) ==
    IF j >= Len(rangeValues) THEN [elems |-> elems, err |-> "nil", fault |-> "none"]
    ELSE decodeRows(rangeValues[j + 1].Values, 0, meta, typ, ptrElements, elems)

\* Lines 182-203: the ranges, from range j on.
RECURSIVE decodeRanges(_, _, _, _, _, _)
decodeRanges(rangeValues, j, meta, typ, ptrElements, elems) ==
    IF j >= Len(rangeValues) THEN [elems |-> elems, err |-> "nil", fault |-> "none"]
    ELSE LET r == decodeRows(rangeValues[j + 1].Values, 0, meta, typ, ptrElements, elems)
         IN  IF r.fault # "none" \/ r.err # "nil" THEN r
             ELSE decodeRanges(rangeValues, j + 1, meta, typ, ptrElements, r.elems)

\* Lines 166-203: dest points to a slice.
decodeSlice(dest, rangeValues, c, hp) ==
    LET elemTyp == Elem(Elem(dest.kinds))
        unchanged(err) == [elems |-> dest.elems, err |-> err, fault |-> "none", cache |-> c, heap |-> hp]
        loop(ptrElements) ==
            LET m == getMetadata(c, hp, dest.struct)
                r == decodeRanges(rangeValues, 0, m.heap[m.meta], dest.struct, ptrElements, dest.elems)
            IN  [elems |-> r.elems, err |-> r.err, fault |-> r.fault, cache |-> m.cache, heap |-> m.heap]
    IN  IF Kind(elemTyp) = "ptr"
        THEN IF Kind(Elem(elemTyp)) = "struct" THEN loop(TRUE)
             ELSE unchanged("not a pointer to a slice of pointers of structs")
        ELSE IF Kind(elemTyp) # "struct" THEN unchanged("not a pointer to a slice of structs")
        ELSE loop(FALSE)

\* A single-record bind that takes the last row of the first range.
decodeStructLastRow(dest, rangeValues, c, hp) ==
    LET m == getMetadata(c, hp, dest.struct)
        values == rangeValues[1].Values
        r == decodeValue(values[Len(values)], m.heap[m.meta], dest.elems[1])
    IN  [elems |-> <<r.rec>>, err |-> r.err, fault |-> r.fault, cache |-> m.cache, heap |-> m.heap]

\* Line 208: dest points to a struct.
decodeStruct(dest, rangeValues, c, hp) ==
    LET m == getMetadata(c, hp, dest.struct)
        r == decodeValue(rangeValues[1].Values[1], m.heap[m.meta], dest.elems[1])
    IN  [elems |-> <<r.rec>>, err |-> r.err, fault |-> r.fault, cache |-> m.cache, heap |-> m.heap]

\* A DecodeValueRange that reports a first range without rows as an error.
DecodeValueRangeNoRowsIsError(dest, rangeValues, c, hp) ==
    LET unchanged(err) == [elems |-> dest.elems, err |-> err, fault |-> "none", cache |-> c, heap |-> hp]
    IN  IF Len(rangeValues) = 0 THEN unchanged("nil")
        ELSE IF Len(rangeValues[1].Values) = 0 THEN unchanged("no values")
        ELSE IF Kind(dest.kinds) # "ptr" THEN unchanged("not a pointer")
        ELSE IF dest.isNil
        THEN [elems |-> dest.elems, err |-> "nil", fault |-> "Type on zero Value", cache |-> c, heap |-> hp]
        ELSE IF Kind(Elem(dest.kinds)) = "slice" THEN decodeSlice(dest, rangeValues, c, hp)
        ELSE IF Kind(Elem(dest.kinds)) # "struct" THEN unchanged("not a pointer to a struct")
        ELSE decodeStruct(dest, rangeValues, c, hp)

DecodeValueRange(dest, rangeValues, c, hp) ==
    LET unchanged(err) == [elems |-> dest.elems, err |-> err, fault |-> "none", cache |-> c, heap |-> hp]
    IN  IF Len(rangeValues) = 0 THEN unchanged("nil")
        ELSE IF Len(rangeValues[1].Values) = 0 THEN unchanged("nil")
        ELSE IF Kind(dest.kinds) # "ptr" THEN unchanged("not a pointer")
        ELSE IF dest.isNil
        THEN [elems |-> dest.elems, err |-> "nil", fault |-> "Type on zero Value", cache |-> c, heap |-> hp]
        ELSE IF Kind(Elem(dest.kinds)) = "slice" THEN decodeSlice(dest, rangeValues, c, hp)
        ELSE IF Kind(Elem(dest.kinds)) # "struct" THEN unchanged("not a pointer to a struct")
        ELSE decodeStruct(dest, rangeValues, c, hp)

(***************************************************************************)
(* The state: the caller's destination, the last call (the destination as  *)
(* it was passed, the ranges, what the call returned or how it panicked),  *)
(* and the package's cache.                                                *)
(*                                                                         *)
(* The goroutines that call getMetadata at the same time: where each is in *)
(* the function (gPc), its typ argument, its locals meta and ok, the calls *)
(* it has made, who holds cacheMu for reading and for writing (0: nobody), *)
(* and every (type, address) a call has returned.                          *)
(***************************************************************************)
VARIABLES dest, before, args, err, fault, calls, cache, heap,
          gPc, gTyp, gMeta, gOk, lookups, readers, writer, returned,
          errE, errTarget, matched, isOut, errCalls,
          httpOp, httpIn, httpResp, httpErr, httpBody, httpGzip, jsonDest, httpCalls

bindVars == <<dest, before, args, err, fault, calls>>

lockVars == <<gPc, gTyp, gMeta, gOk, lookups, readers, writer, returned>>

\* The arguments and the outcomes of the last IsResourceError and Is calls.
errVars == <<errE, errTarget, matched, isOut, errCalls>>

\* The last call of Do or ReadJSON: its arguments and what the HTTP call
\* gave (httpIn), what it returned, the state of the underlying response
\* body and of its decompressor, and the destination of ReadJSON.
httpVars == <<httpOp, httpIn, httpResp, httpErr, httpBody, httpGzip, jsonDest, httpCalls>>

vars == <<dest, before, args, err, fault, calls, cache, heap,
          gPc, gTyp, gMeta, gOk, lookups, readers, writer, returned,
          errE, errTarget, matched, isOut, errCalls,
          httpOp, httpIn, httpResp, httpErr, httpBody, httpGzip, jsonDest, httpCalls>>

Goroutines == 1..NumGoroutines

Input(ctx, method, url, requestData, options, rt, gzipCloseFails) ==
    [ctx |-> ctx, method |-> method, url |-> url, requestData |-> requestData,
     options |-> options, rt |-> rt, gzipCloseFails |-> gzipCloseFails]

NoInput ==
    Input("live", "", RawURL(FALSE, "", NoQuery), "none", << >>,
          RoundTrip(TRUE, FALSE, 0, "", Wire("plain", ""), FALSE), FALSE)

NoDest == Dest(<< >>, "", FALSE, << >>)

Init ==
    /\ dest = NoDest
    /\ before = NoDest
    /\ args = << >>
    /\ err = "nil"
    /\ fault = "none"
    /\ calls = 0
    /\ cache = EmptyCache
    /\ heap = << >>
    /\ gPc = [g \in Goroutines |-> "idle"]
    /\ gTyp = [g \in Goroutines |-> "int"]
    /\ gMeta = [g \in Goroutines |-> 0]
    /\ gOk = [g \in Goroutines |-> FALSE]
    /\ lookups = [g \in Goroutines |-> 0]
    /\ readers = {}
    /\ writer = 0
    /\ returned = {}
    /\ errE = NilResourceError
    /\ errTarget = NilError
    /\ matched = Result(FALSE)
    /\ isOut = Result(FALSE)
    /\ errCalls = 0
    /\ httpOp = "none"
    /\ httpIn = NoInput
    /\ httpResp = NoResponse
    /\ httpErr = NilError
    /\ httpBody = "none"
    /\ httpGzip = "none"
    /\ jsonDest = OldValue
    /\ httpCalls = 0

\* The caller runs DecodeValueRange(d, rv...).
Call(d, rv) ==
    /\ \E r \in {DecodeValueRange(d, rv, cache, heap)} :
           /\ before' = d
           /\ args' = rv
           /\ dest' = [d EXCEPT !.elems = r.elems]
           /\ err' = r.err
           /\ fault' = r.fault
           /\ cache' = r.cache
           /\ heap' = r.heap
    /\ calls' = calls + 1
    /\ UNCHANGED <<lockVars, errVars, httpVars>>

\* A caller makes at most MaxCalls calls.
Next ==
    /\ calls < MaxCalls
    /\ \E d \in Dests, rv \in RangeValues : Call(d, rv)

Spec == Init /\ [][Next]_vars

(***************************************************************************)
(* getMetadata, lines 94-147, step by step, called by several goroutines.  *)
(***************************************************************************)
LookupTypes == {"testRow", "testRowFieldDecoder", "taggedRow", "int"}

\* A goroutine calls getMetadata(t).
Enter(g, t) ==
    /\ gPc[g] = "idle"
    /\ lookups[g] < MaxLookups
    /\ gPc' = [gPc EXCEPT ![g] = "RLock"]
    /\ gTyp' = [gTyp EXCEPT ![g] = t]
    /\ gMeta' = [gMeta EXCEPT ![g] = 0]
    /\ gOk' = [gOk EXCEPT ![g] = FALSE]
    /\ lookups' = [lookups EXCEPT ![g] = @ + 1]
    /\ UNCHANGED <<bindVars, errVars, httpVars, cache, heap, readers, writer, returned>>

\* Line 95: cacheMu.RLock()
RLock(g) ==
    /\ gPc[g] = "RLock"
    /\ writer = 0
    /\ readers' = readers \cup {g}
    /\ gPc' = [gPc EXCEPT ![g] = "probe"]
    /\ UNCHANGED <<bindVars, errVars, httpVars, cache, heap, gTyp, gMeta, gOk, lookups, writer, returned>>

\* Line 96: meta, ok := cache[typ]
Probe(g) ==
    /\ gPc[g] = "probe"
    /\ gMeta' = [gMeta EXCEPT ![g] = IF gTyp[g] \in StructNames THEN cache[gTyp[g]] ELSE 0]
    /\ gOk' = [gOk EXCEPT ![g] = gTyp[g] \in StructNames /\ cache[gTyp[g]] # 0]
    /\ gPc' = [gPc EXCEPT ![g] = "RUnlock"]
    /\ UNCHANGED <<bindVars, errVars, httpVars, cache, heap, gTyp, lookups, readers, writer, returned>>

\* RUnlock as it would be if the hit returned at line 99 before line 97.
RUnlockMissOnly(g) ==
    /\ gPc[g] = "RUnlock"
    /\ readers' = IF gOk[g] THEN readers ELSE readers \ {g}
    /\ gPc' = [gPc EXCEPT ![g] = IF gOk[g] THEN "return" ELSE "check"]
    /\ UNCHANGED <<bindVars, errVars, httpVars, cache, heap, gTyp, gMeta, gOk, lookups, writer, returned>>

\* Lines 97-100: cacheMu.RUnlock(); if ok { return meta }
RUnlock(g) ==
    /\ gPc[g] = "RUnlock"
    /\ readers' = readers \ {g}
    /\ gPc' = [gPc EXCEPT ![g] = IF gOk[g] THEN "return" ELSE "check"]
    /\ UNCHANGED <<bindVars, errVars, httpVars, cache, heap, gTyp, gMeta, gOk, lookups, writer, returned>>

\* Lines 102-104: panic("not a struct type")
Check(g) ==
    /\ gPc[g] = "check"
    /\ gPc' = [gPc EXCEPT ![g] = IF KeyKind(gTyp[g]) # "struct" THEN "panicked" ELSE "build"]
    /\ UNCHANGED <<bindVars, errVars, httpVars, cache, heap, gTyp, gMeta, gOk, lookups, readers, writer, returned>>

\* Build as it would be if line 143 came before the hook check of lines
\* 135-140 and outside the write lock.
BuildPublished(g) ==
    /\ gPc[g] = "build"
    /\ heap' = Append(heap, [buildMetadata(gTyp[g]) EXCEPT !.decodeFieldFunc = "none"])
    /\ gMeta' = [gMeta EXCEPT ![g] = Len(heap) + 1]
    /\ cache' = [cache EXCEPT ![gTyp[g]] = Len(heap) + 1]
    /\ gPc' = [gPc EXCEPT ![g] = "implements"]
    /\ UNCHANGED <<bindVars, errVars, httpVars, gTyp, gOk, lookups, readers, writer, returned>>

\* Lines 106-133: meta = &metadata{typ: typ, headers: headers}
Build(g) ==
    /\ gPc[g] = "build"
    /\ heap' = Append(heap, [buildMetadata(gTyp[g]) EXCEPT !.decodeFieldFunc = "none"])
    /\ gMeta' = [gMeta EXCEPT ![g] = Len(heap) + 1]
    /\ gPc' = [gPc EXCEPT ![g] = "implements"]
    /\ UNCHANGED <<bindVars, errVars, httpVars, cache, gTyp, gOk, lookups, readers, writer, returned>>

\* Lines 135-140: meta.decodeFieldFunc = &method.Func
Implements(g) ==
    /\ gPc[g] = "implements"
    /\ heap' = [heap EXCEPT ![gMeta[g]].decodeFieldFunc = buildMetadata(gTyp[g]).decodeFieldFunc]
    /\ gPc' = [gPc EXCEPT ![g] = "Lock"]
    /\ UNCHANGED <<bindVars, errVars, httpVars, cache, gTyp, gMeta, gOk, lookups, readers, writer, returned>>

\* Line 142: cacheMu.Lock()
Lock(g) ==
    /\ gPc[g] = "Lock"
    /\ writer = 0
    /\ readers = {}
    /\ writer' = g
    /\ gPc' = [gPc EXCEPT ![g] = "insert"]
    /\ UNCHANGED <<bindVars, errVars, httpVars, cache, heap, gTyp, gMeta, gOk, lookups, readers, returned>>

\* Line 143: cache[typ] = meta
Insert(g) ==
    /\ gPc[g] = "insert"
    /\ cache' = [cache EXCEPT ![gTyp[g]] = gMeta[g]]
    /\ gPc' = [gPc EXCEPT ![g] = "Unlock"]
    /\ UNCHANGED <<bindVars, errVars, httpVars, heap, gTyp, gMeta, gOk, lookups, readers, writer, returned>>

\* Line 144: cacheMu.Unlock()
Unlock(g) ==
    /\ gPc[g] = "Unlock"
    /\ writer' = 0
    /\ gPc' = [gPc EXCEPT ![g] = "return"]
    /\ UNCHANGED <<bindVars, errVars, httpVars, cache, heap, gTyp, gMeta, gOk, lookups, readers, returned>>

\* Lines 99 and 146: return meta
Return(g) ==
    /\ gPc[g] = "return"
    /\ returned' = returned \cup {<<gTyp[g], gMeta[g]>>}
    /\ gPc' = [gPc EXCEPT ![g] = "idle"]
    /\ UNCHANGED <<bindVars, errVars, httpVars, cache, heap, gTyp, gMeta, gOk, lookups, readers, writer>>

NextCache ==
    \E g \in Goroutines :
        \/ \E t \in LookupTypes : Enter(g, t)
        \/ RLock(g)
        \/ Probe(g)
        \/ RUnlock(g)
        \/ Check(g)
        \/ Build(g)
        \/ Implements(g)
        \/ Lock(g)
        \/ Insert(g)
        \/ Unlock(g)
        \/ Return(g)

SpecCache == Init /\ [][NextCache]_vars

\* A goroutine inside getMetadata takes its next step.
Step(g) ==
    \/ RLock(g)
    \/ Probe(g)
    \/ RUnlock(g)
    \/ Check(g)
    \/ Build(g)
    \/ Implements(g)
    \/ Lock(g)
    \/ Insert(g)
    \/ Unlock(g)
    \/ Return(g)

\* The scheduler lets every goroutine that can take a step take it; whether
\* a goroutine calls getMetadata at all is up to the caller.
SpecCacheFair == SpecCache /\ \A g \in Goroutines : WF_vars(Step(g))

(***************************************************************************)
(* A caller compares a *ResourceError with an error, by the function and   *)
(* by the method.                                                          *)
(***************************************************************************)
Compare(e, target) ==
    /\ errE' = e
    /\ errTarget' = target
    /\ matched' = IsResourceError(e, target)
    /\ isOut' = Is(e, target)
    /\ errCalls' = errCalls + 1
    /\ UNCHANGED <<bindVars, cache, heap, lockVars, httpVars>>

NextError ==
    /\ errCalls < MaxCalls
    /\ \E e \in ResourceErrorPtrs, target \in Errors : Compare(e, target)

SpecError == Init /\ [][NextError]_vars

(***************************************************************************)
(* A caller calls Do, or ReadJSON with a destination that holds OldValue.  *)
(* The caller of Do owns the body of the response Do returns.              *)
(***************************************************************************)
CallDo(ctx, method, url, options, rt) ==
    /\ \E r \in {Do(ctx, method, url, options, rt)} :
           /\ httpResp' = r.resp
           /\ httpErr' = r.err
           /\ httpBody' = r.body
    /\ httpOp' = "Do"
    /\ httpIn' = Input(ctx, method, url, "none", options, rt, FALSE)
    /\ httpGzip' = "none"
    /\ jsonDest' = OldValue
    /\ httpCalls' = httpCalls + 1
    /\ UNCHANGED <<bindVars, cache, heap, lockVars, errVars>>

CallReadJSON(ctx, method, url, requestData, options, rt, gzipCloseFails) ==
    /\ \E r \in {ReadJSON(ctx, method, url, requestData, OldValue, options, rt, gzipCloseFails)} :
           /\ httpErr' = r.err
           /\ jsonDest' = r.dest
           /\ httpBody' = r.body
           /\ httpGzip' = r.gzipReader
    /\ httpOp' = "ReadJSON"
    /\ httpIn' = Input(ctx, method, url, requestData, options, rt, gzipCloseFails)
    /\ httpResp' = NoResponse
    /\ httpCalls' = httpCalls + 1
    /\ UNCHANGED <<bindVars, cache, heap, lockVars, errVars>>

NextClient ==
    /\ httpCalls < MaxCalls
    /\ \E ctx \in Contexts, method \in HTTPMethods, url \in RawURLs,
          options \in OptionLists, rt \in RoundTrips :
           \/ CallDo(ctx, method, url, options, rt)
           \/ \E requestData \in RequestData, gzipCloseFails \in BOOLEAN :
                  CallReadJSON(ctx, method, url, requestData, options, rt, gzipCloseFails)

SpecClient == Init /\ [][NextClient]_vars

(***************************************************************************)
(* What the properties speak about: the last call.                         *)
(***************************************************************************)
Called == calls > 0

IsStructPtr(d) == d.kinds = <<"ptr", "struct">> /\ ~d.isNil

PtrElements(d) == d.kinds = <<"ptr", "slice", "ptr", "struct">>

IsSlicePtr(d) == (d.kinds = <<"ptr", "slice", "struct">> \/ PtrElements(d)) /\ ~d.isNil

WrongShape(d) ==
    /\ d.kinds # <<"ptr", "struct">>
    /\ d.kinds # <<"ptr", "slice", "struct">>
    /\ d.kinds # <<"ptr", "slice", "ptr", "struct">>

NoValues(rangeValues) == Len(rangeValues) = 0 \/ Len(rangeValues[1].Values) = 0

\* The rows of the ranges in encounter order.
RECURSIVE AllRows(_)
AllRows(rangeValues) ==
    IF Len(rangeValues) = 0 THEN << >>
    ELSE Head(rangeValues).Values \o AllRows(Tail(rangeValues))

\* The element a slice destination d gets for a row.
ElementOf(d, row) ==
    LET rec == decodeValue(row, buildMetadata(d.struct), ZeroRecord(d.struct)).rec
    IN  IF PtrElements(d) THEN [ref |-> rec] ELSE rec

ElementsOf(d, rows) == [k \in 1..Len(rows) |-> ElementOf(d, rows[k])]

(***************************************************************************)
(* C1 as stated: a call on a slice destination that returns nil has        *)
(* appended one record per row of all the ranges, in encounter order,      *)
(* after the elements the slice held.                                      *)
(***************************************************************************)
C1_AppendsEveryRow ==
    (Called /\ IsSlicePtr(before) /\ fault = "none" /\ err = "nil")
        => dest.elems = before.elems \o ElementsOf(before, AllRows(args))

(***************************************************************************)
(* C1 amended: the same when the first range has a row; when the first     *)
(* range has no row the call appends nothing, whatever the later ranges    *)
(* hold.                                                                   *)
(***************************************************************************)
C1_AppendsRowsInOrder ==
    (Called /\ IsSlicePtr(before) /\ fault = "none" /\ err = "nil")
        => dest.elems = before.elems \o
              (IF NoValues(args) THEN << >> ELSE ElementsOf(before, AllRows(args)))

C1_Witness ==
    /\ Called /\ IsSlicePtr(before) /\ fault = "none" /\ err = "nil"
    /\ Len(args) = 2 /\ Len(args[1].Values) = 1 /\ Len(args[2].Values) = 2
    /\ Len(before.elems) = 1 /\ Len(dest.elems) = 4
    /\ dest.elems[2] # dest.elems[3] /\ dest.elems[3] # dest.elems[4]

(***************************************************************************)
(* C2: a call with no ranges, or whose first range has no rows, on a       *)
(* record or slice destination returns nil, does not panic and leaves the  *)
(* destination as it was.                                                  *)
(***************************************************************************)
C2_NoValuesNoChange ==
    (Called /\ (IsSlicePtr(before) \/ IsStructPtr(before)) /\ NoValues(args))
        => (err = "nil" /\ fault = "none" /\ dest = before)

C2_Witness ==
    /\ Called /\ IsSlicePtr(before) /\ Len(before.elems) = 1
    /\ Len(args) = 2 /\ Len(args[1].Values) = 0 /\ Len(args[2].Values) = 2
    /\ err = "nil" /\ fault = "none" /\ dest = before

(***************************************************************************)
(* C3: a call whose destination has the wrong shape returns an error and   *)
(* leaves the destination unchanged, whatever ranges are passed.           *)
(***************************************************************************)
C3_WrongShapeIsError ==
    (Called /\ WrongShape(before))
        => (err # "nil" /\ fault = "none" /\ dest = before)

(***************************************************************************)
(* The binding of one row, stated field by field.                          *)
(***************************************************************************)
FieldsOf(typ) == StructOf(typ).fields

HeadersOf(typ) == buildMetadata(typ).headers

HookOf(typ) == StructOf(typ).hook

\* The positions of row whose descriptor is the one of field number f - 1.
CellsFor(typ, row, f) ==
    {i \in 1..Len(row) : i <= Len(HeadersOf(typ)) /\ HeadersOf(typ)[i].FieldIndex = f - 1}

\* Every cell has a descriptor and a runtime type.
FitsHeaders(typ, row) ==
    /\ Len(row) <= Len(HeadersOf(typ))
    /\ \A i \in 1..Len(row) : row[i].t # "nil"

\* The record the default assignment makes of prev.
DefaultBound(typ, row, prev) ==
    [f \in 1..Len(FieldsOf(typ)) |->
        IF \E i \in CellsFor(typ, row, f) : row[i].t = FieldsOf(typ)[f].Type
        THEN row[CHOOSE i \in CellsFor(typ, row, f) : TRUE]
        ELSE prev[f]]

WrapFor(d, rec) == IF PtrElements(d) THEN [ref |-> rec] ELSE rec

(***************************************************************************)
(* C4: with no DecodeField hook, a row of at most as many (non-nil) cells  *)
(* as the type has descriptors sets the field of the i-th descriptor to    *)
(* the i-th cell when the cell's type is the field's type, leaves the      *)
(* field as it was otherwise, binds the other cells all the same, and the  *)
(* call returns nil.                                                       *)
(***************************************************************************)
C4_DefaultAssignment ==
    (/\ Called /\ (IsStructPtr(before) \/ IsSlicePtr(before)) /\ ~NoValues(args)
     /\ HookOf(before.struct) = "none")
        => /\ (IsStructPtr(before) /\ FitsHeaders(before.struct, args[1].Values[1]))
                => /\ err = "nil" /\ fault = "none"
                   /\ dest.elems = <<DefaultBound(before.struct, args[1].Values[1], before.elems[1])>>
           /\ (IsSlicePtr(before) /\ \A k \in 1..Len(AllRows(args)) : FitsHeaders(before.struct, AllRows(args)[k]))
                => /\ err = "nil" /\ fault = "none"
                   /\ dest.elems = before.elems \o
                        [k \in 1..Len(AllRows(args)) |->
                            WrapFor(before, DefaultBound(before.struct, AllRows(args)[k], ZeroRecord(before.struct)))]

\* A mismatched first cell leaves Name as it was and Age is bound all the same.
C4_Witness ==
    /\ Called /\ IsStructPtr(before) /\ before.struct = "testRow"
    /\ before.elems = <<OldRecord("testRow")>>
    /\ ~NoValues(args)
    /\ args[1].Values[1] = <<IntCell(27), IntCell(27)>>
    /\ err = "nil" /\ fault = "none"
    /\ dest.elems[1] = <<StringCell("old"), StringCell("old"), IntCell(27)>>

(***************************************************************************)
(* C5: a type whose DecodeField returns ErrOK for every field (okRow) is   *)
(* bound as the same type without the hook (testRow): same destination     *)
(* contents, same returned error, and a panic in one is a panic in the     *)
(* other.                                                                  *)
(***************************************************************************)
C5_ErrOKHookIsDefault ==
    (Called /\ before.struct = "okRow")
        => LET r == DecodeValueRange([before EXCEPT !.struct = "testRow"], args, EmptyCache, << >>)
           IN  /\ dest.elems = r.elems
               /\ err = r.err
               /\ (fault = "none") <=> (r.fault = "none")

C5_Witness ==
    /\ Called /\ before.struct = "okRow" /\ IsSlicePtr(before) /\ ~PtrElements(before)
    /\ err = "nil" /\ fault = "none"
    /\ Len(dest.elems) = 2
    /\ dest.elems[2] = <<StringCell("makis"), StringCell(""), IntCell(27)>>

(***************************************************************************)
(* C6: a cell for which DecodeField returns nil gets no default            *)
(* assignment and the next cell is bound: the field holds what the hook    *)
(* wrote.  For every row, in row order, for []*T and for []T.              *)
(***************************************************************************)
\* What DecodeField returns for the i-th cell of row.
HookRet(typ, row, i) ==
    DecodeField(HookOf(typ), ZeroRecord(typ), HeadersOf(typ)[i], row[i]).ret

\* The hook returns nil or ErrOK for every cell of the row.
HookAccepts(typ, row) ==
    /\ FitsHeaders(typ, row)
    /\ \A i \in 1..Len(row) : HookRet(typ, row, i) \in {"nil", ErrOK}

\* The hooks of the model write a string cell, suffixed, into a string
\* field and write nothing else.
HookBound(typ, row) ==
    [f \in 1..Len(FieldsOf(typ)) |->
        IF CellsFor(typ, row, f) = {} THEN Zero(FieldsOf(typ)[f].Type)
        ELSE LET i == CHOOSE i \in CellsFor(typ, row, f) : TRUE
             IN  IF HookRet(typ, row, i) = "nil"
                 THEN IF row[i].t = "string" /\ FieldsOf(typ)[f].Type = "string"
                      THEN StringCell(row[i].s \o " custom value")
                      ELSE Zero(FieldsOf(typ)[f].Type)
                 ELSE IF row[i].t = FieldsOf(typ)[f].Type THEN row[i]
                 ELSE Zero(FieldsOf(typ)[f].Type)]

C6_HookHandlesField ==
    (/\ Called /\ IsSlicePtr(before) /\ ~NoValues(args)
     /\ HookOf(before.struct) \in {"custom", "strict"}
     /\ \A k \in 1..Len(AllRows(args)) : HookAccepts(before.struct, AllRows(args)[k]))
        => /\ err = "nil" /\ fault = "none"
           /\ dest.elems = before.elems \o
                [k \in 1..Len(AllRows(args)) |-> WrapFor(before, HookBound(before.struct, AllRows(args)[k]))]

\* The test of the package, on []*testRowFieldDecoder.
C6_Witness ==
    /\ Called /\ PtrElements(before) /\ before.struct = "testRowFieldDecoder"
    /\ before.elems = << >>
    /\ AllRows(args) = << <<StringCell("makis")>>, <<StringCell("makis")>>, <<StringCell("makis")>> >>
    /\ err = "nil" /\ fault = "none"
    /\ dest.elems = [k \in 1..3 |-> [ref |-> <<StringCell("makis custom value")>>]]

(***************************************************************************)
(* C7: when DecodeField returns an error other than ErrOK on row N of a    *)
(* slice destination, the call returns that error and the destination      *)
(* holds the records of the rows before N, appended in order, and nothing  *)
(* of row N or of a later row.                                             *)
(***************************************************************************)
\* DecodeField returns an error for a cell of the row, after cells it accepted.
HookRejects(typ, row, e) ==
    \E i \in 1..Len(row) :
        /\ i <= Len(HeadersOf(typ))
        /\ \A j \in 1..i : row[j].t # "nil"
        /\ \A j \in 1..(i - 1) : HookRet(typ, row, j) \in {"nil", ErrOK}
        /\ HookRet(typ, row, i) = e

HookErrors == {"bad cell"}

C7_HookErrorStopsBind ==
    \A e \in HookErrors : \A n \in 1..Len(AllRows(args)) :
        (/\ Called /\ IsSlicePtr(before) /\ ~NoValues(args)
         /\ HookOf(before.struct) # "none"
         /\ HookRejects(before.struct, AllRows(args)[n], e)
         /\ \A k \in 1..(n - 1) : HookAccepts(before.struct, AllRows(args)[k]))
            => /\ err = e /\ fault = "none"
               /\ dest.elems = before.elems \o ElementsOf(before, SubSeq(AllRows(args), 1, n - 1))

C7_Witness ==
    /\ Called /\ IsSlicePtr(before) /\ before.struct = "strictRow"
    /\ Len(before.elems) = 1
    /\ AllRows(args) = << <<StringCell("makis"), IntCell(27)>>, <<IntCell(27)>>, <<StringCell("makis")>> >>
    /\ err = "bad cell" /\ fault = "none"
    /\ Len(dest.elems) = 2

(***************************************************************************)
(* C8: a call on a pointer to one record binds the first row of the first  *)
(* range and nothing else: the outcome is the outcome of the call with     *)
(* that row alone.                                                         *)
(***************************************************************************)
C8_OnlyFirstRow ==
    (Called /\ IsStructPtr(before) /\ ~NoValues(args))
        => LET r == DecodeValueRange(before, <<[Values |-> <<args[1].Values[1]>>]>>, EmptyCache, << >>)
           IN  dest.elems = r.elems /\ err = r.err /\ fault = r.fault

\* The rows that are not bound include one that could not be bound.
C8_Witness ==
    /\ Called /\ IsStructPtr(before) /\ before.struct = "testRow"
    /\ Len(args) = 2 /\ Len(args[1].Values) = 2 /\ Len(args[2].Values) = 1
    /\ args[1].Values[1] = <<StringCell("makis"), IntCell(27)>>
    /\ args[1].Values[2] = <<NilCell>>
    /\ err = "nil" /\ fault = "none"
    /\ dest.elems = << <<StringCell("makis"), before.elems[1][2], IntCell(27)>> >>

(***************************************************************************)
(* C9: the metadata of a struct type has one descriptor per exported field *)
(* whose tag is not "-", in declaration order, named by the tag or else by *)
(* the field, with the field's ordinal and type.                           *)
(***************************************************************************)
BindableFields(typ) ==
    {i \in 0..(Len(FieldsOf(typ)) - 1) :
        FieldsOf(typ)[i + 1].PkgPath = "" /\ FieldsOf(typ)[i + 1].Tag # "-"}

DescribesFields(typ, headers) ==
    /\ {headers[k].FieldIndex : k \in 1..Len(headers)} = BindableFields(typ)
    /\ Len(headers) = Cardinality(BindableFields(typ))
    /\ \A k \in 1..Len(headers) : \A l \in 1..Len(headers) :
          k < l => headers[k].FieldIndex < headers[l].FieldIndex
    /\ \A k \in 1..Len(headers) :
          LET f == FieldsOf(typ)[headers[k].FieldIndex + 1]
          IN  /\ headers[k].Name = (IF f.Tag # "" THEN f.Tag ELSE f.Name)
              /\ headers[k].FieldName = f.Name
              /\ headers[k].FieldType = f.Type

C9_OneHeaderPerBindableField ==
    \A typ \in StructNames :
        cache[typ] # 0 => DescribesFields(typ, heap[cache[typ]].headers)

C9_Witness ==
    /\ cache["taggedRow"] # 0
    /\ heap[cache["taggedRow"]].headers = <<Header("title", 1, "Title", "string")>>

(***************************************************************************)
(* C10: in every interleaving of getMetadata calls the metadata of a type  *)
(* is built at most once and no two calls for the same type return         *)
(* different instances.                                                    *)
(***************************************************************************)
\* The addresses of the metadata built for a type.
BuiltFor(t) == {a \in 1..Len(heap) : heap[a].typ = t}

C10_OneInstancePerType ==
    \A t \in StructNames :
        /\ Cardinality(BuiltFor(t)) <= 1
        /\ \A a \in 1..Len(heap) : \A b \in 1..Len(heap) :
              (<<t, a>> \in returned /\ <<t, b>> \in returned) => a = b

(***************************************************************************)
(* C11: in every interleaving of getMetadata calls, an entry is complete   *)
(* (descriptors and hook reference computed) when it becomes visible in    *)
(* the cache, a stored metadata is not changed afterwards, a key once      *)
(* filled stays filled, every value stored under a key has the content     *)
(* built for that type, and what a reader obtains or a call returns is     *)
(* complete.                                                               *)
(***************************************************************************)
Complete(t, a) == a \in 1..Len(heap) /\ heap[a] = buildMetadata(t)

C11_EntriesCompleteAndStable ==
    [][/\ \A t \in StructNames :
              /\ cache'[t] # 0 => heap'[cache'[t]] = buildMetadata(t)
              /\ cache[t] # 0 => cache'[t] # 0 /\ heap'[cache[t]] = heap[cache[t]]
       /\ \A g \in Goroutines : gOk'[g] => heap'[gMeta'[g]] = buildMetadata(gTyp'[g])
       /\ \A p \in returned' : heap'[p[2]] = buildMetadata(p[1])]_vars

\* A reader hits the entry of a hooked type that two goroutines built and
\* stored one after the other.
C11_Witness ==
    \E g \in Goroutines :
        /\ gPc[g] = "return"
        /\ gOk[g]
        /\ gTyp[g] = "testRowFieldDecoder"
        /\ Complete("testRowFieldDecoder", gMeta[g])
        /\ \E a \in 1..Len(heap) :
               a # cache["testRowFieldDecoder"] /\ Complete("testRowFieldDecoder", a)

(***************************************************************************)
(* C18: a goroutine holds cacheMu only while it probes (read lock) or      *)
(* inserts (write lock), so never while it builds, returns or panics; the  *)
(* panic on a non-struct type stores nothing; and under fair scheduling    *)
(* every call of getMetadata ends, by returning or by that panic.          *)
(***************************************************************************)
HoldsLock(g) == g \in readers \/ writer = g

C18_LockProtocol ==
    /\ [](\A g \in Goroutines :
              /\ g \in readers => gPc[g] \in {"probe", "RUnlock"}
              /\ writer = g => gPc[g] \in {"insert", "Unlock"}
              /\ gPc[g] \in {"idle", "check", "build", "implements", "return", "panicked"}
                     => ~HoldsLock(g))
    /\ [][\A g \in Goroutines :
              (gPc[g] # "panicked" /\ gPc'[g] = "panicked") => cache' = cache /\ heap' = heap]_vars
    /\ \A g \in Goroutines : (gPc[g] # "idle") ~> (gPc[g] \in {"idle", "panicked"})

\* One goroutine has panicked on a non-struct type while another holds the
\* write lock to insert what it built.
C18_Witness ==
    \E g, h \in Goroutines :
        /\ gPc[g] = "panicked"
        /\ ~HoldsLock(g)
        /\ gPc[h] = "insert"
        /\ writer = h
        /\ readers = {}

(***************************************************************************)
(* C19: decodeValue does not check the cell index against the descriptor   *)
(* list.  The first row of a call, on a type with count >= 1 descriptors   *)
(* and with more than count cells, never makes the call return nil; when   *)
(* its cells 0..count-1 bind (each has a runtime type and the hook, if     *)
(* any, returns nil or ErrOK for it) they are bound and the call then      *)
(* panics with an index out of range.  A row with no cell, and any row    *)
(* on a type with no descriptor, changes nothing and the call returns nil. *)
(***************************************************************************)
Count(typ) == Len(HeadersOf(typ))

FirstRow == args[1].Values[1]

Overlong(typ, row) == Count(typ) >= 1 /\ Len(row) > Count(typ)

NoOpRow(typ, row) == Len(row) = 0 \/ Count(typ) = 0

BoundCells(typ, row) == SubSeq(row, 1, Count(typ))

\* Cells 0..count-1 of the row bind.
CellsBind(typ, row) ==
    IF HookOf(typ) = "none" THEN FitsHeaders(typ, BoundCells(typ, row))
    ELSE HookAccepts(typ, BoundCells(typ, row))

\* The record prev after cells 0..count-1 of the row are bound.
CellsBound(typ, row, prev) ==
    [f \in 1..Len(FieldsOf(typ)) |->
        IF CellsFor(typ, BoundCells(typ, row), f) = {} THEN prev[f]
        ELSE LET i == CHOOSE i \in CellsFor(typ, BoundCells(typ, row), f) : TRUE
             IN  IF HookOf(typ) # "none" /\ HookRet(typ, row, i) = "nil"
                 THEN IF row[i].t = "string" /\ FieldsOf(typ)[f].Type = "string"
                      THEN StringCell(row[i].s \o " custom value")
                      ELSE prev[f]
                 ELSE IF row[i].t = FieldsOf(typ)[f].Type THEN row[i]
                 ELSE prev[f]]

C19_NoBoundsCheck ==
    (Called /\ (IsStructPtr(before) \/ IsSlicePtr(before)) /\ ~NoValues(args))
        => /\ Overlong(before.struct, FirstRow)
                  => /\ ~(err = "nil" /\ fault = "none")
                     /\ IsSlicePtr(before) => dest.elems = before.elems
                     /\ CellsBind(before.struct, FirstRow)
                            => /\ fault = "index out of range"
                               /\ IsStructPtr(before)
                                      => dest.elems = <<CellsBound(before.struct, FirstRow, before.elems[1])>>
           /\ (IsStructPtr(before) /\ NoOpRow(before.struct, FirstRow))
                  => err = "nil" /\ fault = "none" /\ dest.elems = before.elems
           /\ (IsSlicePtr(before) /\ \A k \in 1..Len(AllRows(args)) : NoOpRow(before.struct, AllRows(args)[k]))
                  => /\ err = "nil" /\ fault = "none"
                     /\ dest.elems = before.elems \o
                            [k \in 1..Len(AllRows(args)) |-> WrapFor(before, ZeroRecord(before.struct))]

\* A filled taggedRow (one descriptor) and a row of two cells: Title is
\* bound from cell 0 and the call panics at cell 1.
C19_Witness ==
    /\ Called /\ IsStructPtr(before) /\ before.struct = "taggedRow"
    /\ before.elems = <<OldRecord("taggedRow")>>
    /\ ~NoValues(args)
    /\ FirstRow = <<StringCell("makis"), IntCell(27)>>
    /\ fault = "index out of range"
    /\ dest.elems = <<SetField(OldRecord("taggedRow"), 1, StringCell("makis"))>>

(***************************************************************************)
(* C20 as stated: a call on a destination of a valid shape, with rows of   *)
(* at most as many cells as the type has descriptors, returns (nil or an   *)
(* error) and does not panic, nil cells included, with or without a        *)
(* DecodeField hook.                                                       *)
(***************************************************************************)
RowsFit(typ, rangeValues) ==
    \A k \in 1..Len(AllRows(rangeValues)) : Len(AllRows(rangeValues)[k]) <= Count(typ)

C20_BindingNeverFaults ==
    (Called /\ (IsStructPtr(before) \/ IsSlicePtr(before)) /\ RowsFit(before.struct, args))
        => fault = "none"

(***************************************************************************)
(* What the properties say of the last comparison.                         *)
(***************************************************************************)
Compared == errCalls > 0

\* target holds a *ResourceError that points to a value.
IsValue(target) == target.kind = "ResourceError" /\ ~target.ptr.isNil

\* Every field of pattern equals the field of candidate or is empty
\* (StatusCode <= 0).
Matches(pattern, candidate) ==
    /\ (pattern.Method = candidate.Method \/ pattern.Method = "")
    /\ (pattern.URL = candidate.URL \/ pattern.URL = "")
    /\ (pattern.StatusCode = candidate.StatusCode \/ pattern.StatusCode <= 0)
    /\ (pattern.Message = candidate.Message \/ pattern.Message = "")

(***************************************************************************)
(* C12 as stated: IsResourceError(p, c) is true exactly when every field   *)
(* of its first argument p equals the field of c or is empty.              *)
(***************************************************************************)
C12_PatternFirst ==
    (Compared /\ ~errE.isNil /\ IsValue(errTarget))
        => /\ matched.fault = "none"
           /\ matched.ret = Matches(errE.val, errTarget.ptr.val)

(***************************************************************************)
(* C12 amended: the pattern is the second argument.  IsResourceError(c, p) *)
(* is true exactly when every field of p equals the field of c or is       *)
(* empty (StatusCode <= 0).                                                *)
(***************************************************************************)
C12_PatternSecond ==
    (Compared /\ ~errE.isNil /\ IsValue(errTarget))
        => /\ matched.fault = "none"
           /\ matched.ret = Matches(errTarget.ptr.val, errE.val)

\* IsResourceError({GET, x, 404, m}, {StatusCode: 404}) is true.
C12_Witness ==
    /\ Compared
    /\ errE = Ref(ResourceError("GET", "x", 404, "m"))
    /\ errTarget = AsError(Ref(ResourceError("", "", 404, "")))
    /\ matched = Result(TRUE)

(***************************************************************************)
(* C13: for a non-nil e and any target, e.Is(target) gives what            *)
(* IsResourceError(e, target) gives, and it is true exactly when target    *)
(* is a ResourceError and each field of e equals the field of target or    *)
(* the field of target is empty (StatusCode <= 0); a target of another     *)
(* type never matches.                                                     *)
(***************************************************************************)
IsTrue(r) == r.fault = "none" /\ r.ret

C13_IsIsIsResourceError ==
    (Compared /\ ~errE.isNil)
        => /\ isOut = matched
           /\ IsTrue(isOut) <=> (IsValue(errTarget) /\ Matches(errTarget.ptr.val, errE.val))
           /\ ~IsValue(errTarget) => ~IsTrue(isOut)

\* errors.Is(err, &ResourceError{StatusCode: 404}) for an err with status 404.
C13_Witness ==
    /\ Compared
    /\ errE = Ref(ResourceError("POST", "x", 404, ""))
    /\ errTarget = AsError(Ref(ResourceError("", "", 404, "")))
    /\ IsTrue(isOut)

(***************************************************************************)
(* C14 as stated: IsResourceError with an absent argument does not panic;  *)
(* it returns true when e and target are both nil and false when exactly   *)
(* one is absent, a nil *ResourceError in a non-nil error included.        *)
(***************************************************************************)
Absent(target) == target.kind = "nil" \/ (target.kind = "ResourceError" /\ target.ptr.isNil)

C14_AbsentArguments ==
    (Compared /\ (errE.isNil \/ Absent(errTarget)))
        => /\ matched.fault = "none"
           /\ (errE.isNil /\ errTarget.kind = "nil") => matched.ret
           /\ (errE.isNil # Absent(errTarget)) => ~matched.ret

(***************************************************************************)
(* What the properties say of the last Do or ReadJSON call.                *)
(***************************************************************************)
\* The call reached the HTTP call of line 78.
Sent == httpCalls > 0 /\ httpIn.url.valid /\ httpIn.requestData # "unencodable"

\* Do returned a response to its caller.
DoReturnedResponse ==
    /\ Sent
    /\ ~httpIn.rt.failed
    /\ httpIn.rt.encoding = "gzip" => HasGzipHeader(httpIn.rt.wire)

\* The request as sent: the url with the query options applied.
ResolvedURL ==
    URLString(applyOptions(httpIn.options, Request(httpIn.method, httpIn.url.Path, httpIn.url.Query)).URL)

\* The body as ReadJSON reads it: decompressed when marked gzip.
BodyText == IF httpIn.rt.encoding = "gzip" THEN httpIn.rt.wire.text ELSE RawText(httpIn.rt.wire)

(***************************************************************************)
(* C15: when Do returns a response whose status is not 200, ReadJSON       *)
(* returns a *ResourceError with the request method, the resolved URL,     *)
(* the status and the whole body as message ("unspecified" when the body   *)
(* cannot be read) and leaves the destination alone; on 200 it decodes     *)
(* the body into the destination and returns the decoder's error as it is. *)
(***************************************************************************)
C15_NonOKIsResourceError ==
    (httpOp = "ReadJSON" /\ DoReturnedResponse)
        => IF httpIn.rt.status # 200
           THEN /\ httpErr = AsError(Ref(ResourceError(httpIn.method, ResolvedURL, httpIn.rt.status,
                                         IF httpIn.rt.readFails THEN "unspecified" ELSE BodyText)))
                /\ jsonDest = OldValue
           ELSE IF ~httpIn.rt.readFails /\ BodyText = "[1]"
           THEN httpErr = NilError /\ jsonDest = <<1>>
           ELSE /\ httpErr \in {Err("unexpected EOF"), Err("EOF"), Err("invalid character")}
                /\ jsonDest = OldValue

\* A 404 "not found" for GET u?a=1 with the option Query{b: 2}.
C15_Witness ==
    /\ httpOp = "ReadJSON"
    /\ DoReturnedResponse
    /\ httpIn.url = RawURL(TRUE, "u", [k \in {"a"} |-> "1"])
    /\ httpIn.options = <<[k \in {"b"} |-> "2"]>>
    /\ httpErr = AsError(Ref(ResourceError("GET", "u?a=1&b=2", 404, "not found")))
    /\ jsonDest = OldValue

(***************************************************************************)
(* C16 as stated: a response body the HTTP call yielded is closed when the *)
(* call that owns it ends, on every path: ReadJSON always, and Do when it  *)
(* returns no response (transport error with a response, gzip reader that  *)
(* cannot be initialised); closing a gzip-wrapped body closes the          *)
(* underlying body also when closing the decompressor fails.               *)
(***************************************************************************)
C16_BodyClosedOnEveryPath ==
    (httpCalls > 0 /\ httpBody # "none" /\ (httpOp = "ReadJSON" \/ httpResp = NoResponse))
        => httpBody = "closed"

(***************************************************************************)
(* C17: when the HTTP call inside Do fails, Do returns ctx.Err() if the    *)
(* context is cancelled or past its deadline and the transport error if    *)
(* it is live; it returns no response, and the body of a response that     *)
(* came with the error is closed.                                          *)
(***************************************************************************)
C17_FailureReturnsContextError ==
    (Sent /\ httpIn.rt.failed)
        => /\ httpErr = (IF httpIn.ctx = "live" THEN Err("transport error") ELSE ctxErr(httpIn.ctx))
           /\ httpResp = NoResponse
           /\ httpBody = (IF httpIn.rt.hasResponse THEN "closed" ELSE "none")

\* Do fails with a partial response after the context was cancelled.
C17_Witness ==
    /\ httpOp = "Do"
    /\ Sent
    /\ httpIn.rt.failed /\ httpIn.rt.hasResponse
    /\ httpIn.ctx = "canceled"
    /\ httpErr = Err("context canceled")
    /\ httpResp = NoResponse
    /\ httpBody = "closed"

====
